---- MODULE Spec2Model ----
(***************************************************************************)
(* queuectl: a SQLite-backed background job queue (src/queuectl.py).       *)
(*                                                                         *)
(* State: the jobs table, the kv (config) table, the status column of the  *)
(* workers table, the clock, the shutdown event, and for every worker      *)
(* process its position in worker_loop together with the job row it read   *)
(* at claim time.  Every SQL statement runs in autocommit mode or inside   *)
(* BEGIN IMMEDIATE, so each statement (or bracket) is one atomic step.     *)
(*                                                                         *)
(* Timestamps are ISO-8601 UTC strings produced by now_utc(); SQLite       *)
(* compares them as text, which for that format is the order of the        *)
(* instants, so they are modelled as integer seconds of one clock.         *)
(* Columns that no operation reads back (command, run_timeout, and the     *)
(* pid/started_at/heartbeat_at columns of workers) are not kept.           *)
(*                                                                         *)
(* A worker's iteration is several such steps (heartbeat, clock reading,   *)
(* claim transaction, idle sleep or second heartbeat, finalize), and the   *)
(* other processes take steps in between.  The workers are those of one    *)
(* `worker start` run: one event, one set of worker ids.                   *)
(*                                                                         *)
(* Spec is the whole system: producers, workers, the operator's commands   *)
(* (dlq retry, config set), signals, kills and the clock.  Its parts, each *)
(* of which has only behaviours of the whole system:                       *)
(*   SpecBasic    every operation, the job JSONs being those of BasicSpecs *)
(*   SpecNoDlq    every job JSON and the worker loop under changes of      *)
(*                backoff_base; no dlq retry, shutdown or kill             *)
(*   SpecNoDlqKill  the whole system but for dlq retry                     *)
(*   SpecEnqueue  every job JSON and config set, no worker running         *)
(*   SpecRetry    backoff_base set to 1 beforehand, under dlq retry        *)
(*   SpecProgress the system left to run under fair scheduling             *)
(***************************************************************************)
EXTENDS Integers, FiniteSets, Sequences, TLC

\* ---- bounds of the model ------------------------------------------------
NumWorkers == 2
NumJobs == 2
MaxTime == 1
MaxRetriesIn == 0
MaxPriority == 1
MaxCommands == 1
MaxAttemptsIn == 1
MaxRetriesProgress == 1

\* ---- program constants --------------------------------------------------
DEFAULT_MAX_RETRIES == 3
DEFAULT_BACKOFF_BASE == 2
\* str(DEFAULT_POLL_IDLE_SECS), the text init_db stores
DEFAULT_POLL_IDLE_SECS == "0.5"

WorkerIds == 1..NumWorkers
JobIds == 1..NumJobs

\* SQL NULL / Python None, one marker per column type
NoWorker == 0
NoJob == 0
NullTime == -1
NullText == "<null>"
\* a key the caller left out of the job JSON
NoKey == -1
NoKeyS == "<absent>"

JobStates == {"pending", "processing", "completed", "dead"}

VARIABLES
    jobs,       \* jobs table: id -> row, for the ids that were inserted (the row's id
                \* column is its key, or NoJob where the caller gave the id null)
    kv,         \* kv table: config key -> text value
    wstatus,    \* workers table: worker id -> status text ("none": no row)
    now,        \* the clock, whole seconds
    shutdown,   \* _shutdown_event
    pc,         \* worker id -> position in worker_loop
    tclaim,     \* worker id -> the clock value its claim call read (line 144), 0 outside the call
    trun,       \* worker id -> the clock when it last was seen before its finalize UPDATE (the
                \* heartbeat 'processing', or the read of backoff_base): no clock reading of
                \* the finalize call is older; 0 outside
    base,       \* worker id -> the backoff_base its finish_job_failure call read (line 180), 0 outside
    job,        \* worker id -> the row returned by its claim (id, attempts, max_retries)
    ret,        \* what the dlq retry command reported, when the last step was one (NoRet otherwise)
    ncmd,       \* number of operator interventions so far (dlq retry, config set, signal)
    claimed,    \* history: jobs returned by a claim and not put back to pending by finalize_failure since
    retry_at,   \* history: job id -> end of the backoff its last failure finalization started (0: none)
    retried     \* history: the dead job the last step's dlq retry requeued and, once the step
                \* after it was the start of a claim call, the worker of that call

vars == <<jobs, kv, wstatus, now, shutdown, pc, tclaim, trun, base, job, ret, ncmd, claimed, retry_at,
          retried>>

NoRow == [id |-> NoJob, attempts |-> 0, max_retries |-> 0]

\* what a command reported: the operation, the job id it was given, and whether
\* it reported success
Ret(op, id, ok) == [op |-> op, id |-> id, ok |-> ok]

\* the last step was no dlq retry command
NoRet == Ret("none", NoJob, TRUE)

\* no dlq retry of a dead job has just been made
NoRetried == [id |-> NoJob, by |-> NoWorker]

\* ---- text <-> number conversions ----------------------------------------
\* the texts config set gives backoff_base: int(text) is positive for the first,
\* negative for the second and raises ValueError on the last
ConfigTexts == {"1", "-1", "abc"}

\* the texts config set gives max_retries_default, a key that is stored and
\* printed and that no other code reads
MaxRetriesTexts == {"1", "abc"}

\* the texts config set gives poll_idle_secs: float(text) raises ValueError on
\* the first, time.sleep(float(text)) raises ValueError on the second
PollTexts == {"abc", "-1"}

\* int(value) succeeds
IsIntText(s) == s \in {"-1", "0", "1", "2", "3"}

\* int(value) for a text that is an integer literal
IntOfText(s) == CASE s = "-1" -> -1 [] s = "0" -> 0 [] s = "1" -> 1 [] s = "2" -> 2 [] s = "3" -> 3

\* str(n) for the defaults init_db writes
TextOfInt(n) == CASE n = 0 -> "0" [] n = 1 -> "1" [] n = 2 -> "2" [] n = 3 -> "3"

\* float(value) succeeds
IsFloatText(s) == s \in {"0.5", "-1"} \/ IsIntText(s)

\* float(value) < 0, for a text that float() accepts
IsNegativeFloatText(s) == s = "-1"

\* ---- config ---------------------------------------------------------------
ConfigKeys == {"max_retries_default", "backoff_base", "poll_idle_secs"}

\* init_db: ensure_default_config for each recognised key
init_db == [k \in ConfigKeys |->
              CASE k = "max_retries_default" -> TextOfInt(DEFAULT_MAX_RETRIES)
                [] k = "backoff_base" -> TextOfInt(DEFAULT_BACKOFF_BASE)
                [] k = "poll_idle_secs" -> DEFAULT_POLL_IDLE_SECS]

get_config(conf, key, default) == IF key \in DOMAIN conf THEN conf[key] ELSE default

\* INSERT ... ON CONFLICT(key) DO UPDATE: an upsert
set_config(conf, key, value) ==
    [k \in DOMAIN conf \cup {key} |-> IF k = key THEN value ELSE conf[k]]

\* the values the operator gives a key
ConfigTextsOf(key) == CASE key = "poll_idle_secs" -> PollTexts
                        [] key = "max_retries_default" -> MaxRetriesTexts
                        [] key = "backoff_base" -> ConfigTexts

\* ---- enqueue --------------------------------------------------------------
\* the job JSON handed to enqueue: a key is NoKey / NoKeyS when the caller left it out
PlainSpec(mr, pr) ==
    [command |-> TRUE, id |-> NoKey, state |-> NoKeyS, attempts |-> NoKey,
     max_retries |-> mr, created_at |-> NoKey, updated_at |-> NoKey,
     available_at |-> NoKey, priority |-> pr]

PlainSpecs == {PlainSpec(mr, pr) : mr \in 0..MaxRetriesIn,
                                   pr \in {NoKey} \cup 0..MaxPriority}

\* the job JSON with a command and nothing else: max_retries is left to the default
DefaultSpec == PlainSpec(NoKey, NoKey)

\* the texts a caller gives the state key: a state other than the default, or a
\* text that names no state (the column takes any text)
StateTexts == (JobStates \ {"pending"}) \cup {"foo"}

\* the job JSON with one further key set: enqueue_job takes a key of the JSON over
\* its default for id, state, attempts, created_at, updated_at and available_at.
\* A caller's id is a text or null (NoJob): setdefault keeps the null, and the
\* primary key column admits it.  A caller's created_at or updated_at is any clock value, its available_at is
\* an instant that is not after any clock value or one that is after them all
OverrideSpecs ==
    LET s == PlainSpec(0, NoKey) IN
         {[s EXCEPT !.id = i] : i \in JobIds \cup {NoJob}}
    \cup {[s EXCEPT !.state = st] : st \in StateTexts}
    \cup {[s EXCEPT !.attempts = a] : a \in 1..MaxAttemptsIn}
    \cup {[s EXCEPT !.created_at = t] : t \in 0..MaxTime}
    \cup {[s EXCEPT !.updated_at = t] : t \in 0..MaxTime}
    \cup {[s EXCEPT !.available_at = t] : t \in {0, MaxTime + 1}}

\* a plain spec, the job JSON with a command and nothing else, a plain spec
\* with one further key set, or a job JSON without command
JobSpecs ==
    PlainSpecs
    \cup {DefaultSpec}
    \cup OverrideSpecs
    \cup {[s EXCEPT !.command = FALSE] : s \in {PlainSpec(0, NoKey)}}

\* the job JSONs of SpecBasic: a plain spec, one with an id, one enqueued as
\* dead or with a state text that names no state, and one without command
BasicSpecs ==
    PlainSpecs
    \cup {[s EXCEPT !.command = FALSE] : s \in {PlainSpec(0, NoKey)}}
    \cup {[s EXCEPT !.id = i] : s \in {PlainSpec(0, NoKey)}, i \in JobIds}
    \cup {[s EXCEPT !.state = st] : s \in {PlainSpec(0, NoKey)}, st \in {"dead", "foo"}}

\* the ids of the table: the id column of the rows where it is not NULL
UsedIds(js) == {js[k].id : k \in DOMAIN js} \ {NoJob}

\* ids are opaque texts that are only compared for equality: a new row takes the
\* least unused id of the model, be it generated or supplied by the caller.  The
\* table is keyed by that id; a row whose id column is NULL is kept under the id
\* a generated one would have had, which no lookup by id ever finds
UnusedIds(js) == {i \in JobIds \ DOMAIN js : \A k \in JobIds \ DOMAIN js : i <= k}

\* uuid.uuid4(): an id no row has
FreshId(js) == CHOOSE i \in UnusedIds(js) : TRUE

\* the row enqueue_job inserts for a spec at time t, id being a generated id
NewRow(s, t, id) ==
    LET created == IF s.created_at = NoKey THEN t ELSE s.created_at
    IN [id           |-> IF s.id = NoKey THEN id ELSE s.id,
        state        |-> IF s.state = NoKeyS THEN "pending" ELSE s.state,
        attempts     |-> IF s.attempts = NoKey THEN 0 ELSE s.attempts,
        max_retries  |-> IF s.max_retries = NoKey THEN DEFAULT_MAX_RETRIES ELSE s.max_retries,
        created_at   |-> created,
        updated_at   |-> IF s.updated_at = NoKey THEN created ELSE s.updated_at,
        available_at |-> IF s.available_at = NoKey THEN created ELSE s.available_at,
        priority     |-> IF s.priority = NoKey THEN 0 ELSE s.priority,
        worker_id    |-> NoWorker,
        started_at   |-> NullTime,
        finished_at  |-> NullTime,
        last_error   |-> NullText,
        output       |-> NullText]

\* enqueue_job raises: KeyError on a missing command, IntegrityError on a used id
EnqueueRaises(js, s) == \/ ~s.command
                        \/ s.id \in UsedIds(js)

\* the key of the new row
EnqueueId(js, s) == IF s.id \in {NoKey, NoJob} THEN FreshId(js) ELSE s.id

enqueue_job(js, s, t) == js @@ (EnqueueId(js, s) :> NewRow(s, t, EnqueueId(js, s)))

\* ---- retry policy ---------------------------------------------------------
compute_backoff_delay(b, attempts) == b ^ attempts

\* ---- claim ----------------------------------------------------------------
\* the subquery's WHERE without its state test: available_at <= ? alone
Eligible_AnyState(js, t) == {j \in DOMAIN js : js[j].available_at <= t}

\* WHERE state='pending' AND available_at <= ?
Eligible(js, t) == {j \in DOMAIN js : js[j].state = "pending" /\ js[j].available_at <= t}

\* ORDER BY priority ASC, created_at ASC: row a sorts no later than row b
OrderedBefore(a, b) == \/ a.priority < b.priority
                       \/ a.priority = b.priority /\ a.created_at <= b.created_at

\* ... LIMIT 1: the ids the subquery may yield (rows equal in both keys tie)
SelectNext(js, t) == {j \in Eligible(js, t) : \A k \in Eligible(js, t) : OrderedBefore(js[j], js[k])}

\* UPDATE jobs SET state='processing', worker_id=?, started_at=?, updated_at=? WHERE id = (...)
MarkProcessing(js, j, w, t) ==
    [js EXCEPT ![j] = [@ EXCEPT !.state = "processing", !.worker_id = w,
                                !.started_at = t, !.updated_at = t]]

\* the read-back without its worker test: WHERE state='processing' alone
ReadBack_AnyWorker(js, w) ==
    LET mine == {j \in DOMAIN js : js[j].state = "processing"}
    IN {j \in mine : \A k \in mine : js[j].started_at >= js[k].started_at}

\* SELECT * FROM jobs WHERE worker_id=? AND state='processing' ORDER BY started_at DESC LIMIT 1
ReadBack(js, w) ==
    LET mine == {j \in DOMAIN js : js[j].worker_id = w /\ js[j].state = "processing"}
    IN {j \in mine : \A k \in mine : js[j].started_at >= js[k].started_at}

\* the columns of a fetched row that worker_loop uses later
RowOf(js, j) == [id |-> js[j].id, attempts |-> js[j].attempts, max_retries |-> js[j].max_retries]

\* every outcome of one claim transaction: the table after it and the row
\* returned.  The UPDATE compares id with the id the subquery yields: when that
\* is NULL no row matches, rowcount is 0 and the call returns None
atomic_claim_next_job(js, w, t) ==
    IF SelectNext(js, t) = {}
    THEN {[jobs |-> js, row |-> NoRow]}
    ELSE UNION {IF js[j].id = NoJob
                THEN {[jobs |-> js, row |-> NoRow]}
                ELSE LET js2 == MarkProcessing(js, j, w, t)
                     IN {[jobs |-> js2, row |-> RowOf(js2, r)] : r \in ReadBack(js2, w)}
                : j \in SelectNext(js, t)}

\* ---- finalize -------------------------------------------------------------
\* UPDATE jobs SET state='completed', finished_at=?, updated_at=?, output=? WHERE id=?
\* with the two now_utc() arguments t1, t2
finish_job_success(js, id, output, t1, t2) ==
    [js EXCEPT ![id] = [@ EXCEPT !.state = "completed", !.finished_at = t1,
                                 !.updated_at = t2, !.output = output]]

\* int(get_config(conn, "backoff_base", ...)) raises ValueError
FailureRaises(conf) ==
    ~IsIntText(get_config(conf, "backoff_base", TextOfInt(DEFAULT_BACKOFF_BASE)))

\* the base finish_job_failure reads when int() accepts the text
BackoffBase(conf) ==
    IntOfText(get_config(conf, "backoff_base", TextOfInt(DEFAULT_BACKOFF_BASE)))

\* finish_job_failure after its read of backoff_base (b); row is the row read at
\* claim time, t1 and t2 are its two clock readings (187, or 189 and 193)
finish_job_failure(js, b, row, error, t1, t2) ==
    LET attempts == row.attempts + 1
        delay == compute_backoff_delay(b, attempts)
    IN IF attempts > row.max_retries
       THEN [js EXCEPT ![row.id] = [@ EXCEPT !.state = "dead", !.attempts = attempts,
                                             !.finished_at = t1, !.updated_at = t2,
                                             !.last_error = error]]
       ELSE [js EXCEPT ![row.id] = [@ EXCEPT !.state = "pending", !.attempts = attempts,
                                             !.available_at = t1 + delay, !.updated_at = t2,
                                             !.last_error = error]]

\* the idle branch of worker_loop raises ValueError: float() rejects the text of
\* poll_idle_secs, or time.sleep() rejects a negative length
IdleRaises(conf) ==
    LET v == get_config(conf, "poll_idle_secs", DEFAULT_POLL_IDLE_SECS)
    IN ~IsFloatText(v) \/ IsNegativeFloatText(v)

\* ---- dlq retry ------------------------------------------------------------
\* UPDATE jobs SET state='pending', attempts=0, available_at=?, updated_at=?,
\*                 last_error=NULL, finished_at=NULL WHERE id=?
\* with the two now_utc() arguments t1, t2
dlq_retry(js, id, t1, t2) ==
    IF id \in UsedIds(js)
    THEN [js EXCEPT ![id] = [@ EXCEPT !.state = "pending", !.attempts = 0,
                                      !.available_at = t1, !.updated_at = t2,
                                      !.last_error = NullText, !.finished_at = NullTime]]
    ELSE js

\* ---- workers table --------------------------------------------------------
NoStatus == [s |-> "none", id |-> NoJob]
Status(s, id) == [s |-> s, id |-> id]

\* update_worker_heartbeat: upsert of the status column
update_worker_heartbeat(ws, w, status) == [ws EXCEPT ![w] = status]

\* run_command: the ways an execution of a job's command fails: a non-zero
\* return code, or an exception (TimeoutExpired)
Failures == {"nonzero", "exception"}
ErrorText(o) == "error"

\* the clock values a process can hold at a statement it sends when the clock
\* shows t: it read them not before the clock showed t0, in this order, and the
\* statement may have waited for the write lock since
Readings(t0, t) == {r \in (t0..t) \X (t0..t) : r[1] <= r[2]}

\* ---- initial state --------------------------------------------------------
Init ==
    /\ jobs = <<>>
    /\ kv = init_db
    /\ wstatus = [w \in WorkerIds |-> NoStatus]
    /\ now = 0
    /\ shutdown = FALSE
    /\ pc = [w \in WorkerIds |-> "top"]
    /\ tclaim = [w \in WorkerIds |-> 0]
    /\ trun = [w \in WorkerIds |-> 0]
    /\ base = [w \in WorkerIds |-> 0]
    /\ job = [w \in WorkerIds |-> NoRow]
    /\ ret = NoRet
    /\ ncmd = 0
    /\ claimed = {}
    /\ retry_at = [j \in JobIds |-> 0]
    /\ retried = NoRetried

\* ---- operations -----------------------------------------------------------
\* queuectl enqueue <job_json>: the clock is read at line 121 (t), the INSERT is
\* committed when the write lock is had, no earlier and possibly later.  A
\* caller's id is one some row has (the INSERT raises IntegrityError whichever
\* row that is: the least stands for them), a new one, or null
Enqueue(s) ==
    /\ \/ s.id \in UsedIds(jobs) /\ \A k \in UsedIds(jobs) : s.id <= k
       \/ UnusedIds(jobs) # {} /\ s.id \in {NoKey, NoJob} \cup UnusedIds(jobs)
    /\ IF EnqueueRaises(jobs, s)
       THEN /\ jobs' = jobs    \* the exception leaves the command: nothing is returned
            /\ ret' = NoRet
            /\ retried' = NoRetried
       ELSE /\ \E t \in 0..now : jobs' = enqueue_job(jobs, s, t)
            /\ ret' = NoRet
            /\ retried' = NoRetried
    /\ UNCHANGED <<kv, wstatus, now, shutdown, pc, tclaim, trun, base, job, ncmd, claimed, retry_at>>

\* worker_loop: the while test of the event
WorkerTest(w) ==
    /\ pc[w] = "top"
    /\ pc' = [pc EXCEPT ![w] = IF shutdown THEN "stopping" ELSE "loop"]
    /\ ret' = NoRet
    /\ retried' = NoRetried
    /\ UNCHANGED <<jobs, kv, wstatus, now, shutdown, tclaim, trun, base, job, ncmd, claimed, retry_at>>

\* worker_loop: the heartbeat 'idle' (own autocommit statement)
WorkerBegin(w) ==
    /\ pc[w] = "loop"
    /\ wstatus' = update_worker_heartbeat(wstatus, w, Status("idle", NoJob))
    /\ pc' = [pc EXCEPT ![w] = "beat"]
    /\ ret' = NoRet
    /\ retried' = NoRetried
    /\ UNCHANGED <<jobs, kv, now, shutdown, tclaim, trun, base, job, ncmd, claimed, retry_at>>

\* atomic_claim_next_job, its first line: now = now_utc(), before the lock is asked for
WorkerReadClock(w) ==
    /\ pc[w] = "beat"
    /\ tclaim' = [tclaim EXCEPT ![w] = now]
    /\ pc' = [pc EXCEPT ![w] = "claiming"]
    /\ ret' = NoRet
    /\ retried' = IF retried.id # NoJob /\ retried.by = NoWorker
                  THEN [retried EXCEPT !.by = w] ELSE NoRetried
    /\ UNCHANGED <<jobs, kv, wstatus, now, shutdown, trun, base, job, ncmd, claimed, retry_at>>

\* atomic_claim_next_job, BEGIN IMMEDIATE to COMMIT, with the clock value read before
WorkerClaim(w) ==
    /\ pc[w] = "claiming"
    /\ \E o \in atomic_claim_next_job(jobs, w, tclaim[w]) :
         /\ jobs' = o.jobs
         /\ ret' = NoRet
         /\ retried' = NoRetried
         /\ IF o.row = NoRow
            THEN /\ pc' = [pc EXCEPT ![w] = "idle"]
                 /\ UNCHANGED <<job, claimed, retry_at>>
            ELSE /\ pc' = [pc EXCEPT ![w] = "claimed"]
                 /\ job' = [job EXCEPT ![w] = o.row]
                 /\ claimed' = claimed \cup {o.row.id}
                 /\ retry_at' = [retry_at EXCEPT ![o.row.id] = 0]
    /\ tclaim' = [tclaim EXCEPT ![w] = 0]
    /\ UNCHANGED <<kv, wstatus, now, shutdown, trun, base, ncmd>>

\* worker_loop, no job: read poll_idle_secs, float(), time.sleep(), continue.  The
\* ValueError of float() or of time.sleep() is caught nowhere: the process ends
\* without the final UPDATE of its workers row.  A sleep that is accepted is
\* shorter than one tick of the clock.
WorkerIdle(w) ==
    /\ pc[w] = "idle"
    /\ pc' = [pc EXCEPT ![w] = IF IdleRaises(kv) THEN "crashed" ELSE "top"]
    /\ ret' = NoRet
    /\ retried' = NoRetried
    /\ UNCHANGED <<jobs, kv, wstatus, now, shutdown, tclaim, trun, base, job, ncmd, claimed, retry_at>>

\* worker_loop, a job was returned: the heartbeat 'processing:<id>', then run_command starts
WorkerHeartbeat(w) ==
    /\ pc[w] = "claimed"
    /\ wstatus' = update_worker_heartbeat(wstatus, w, Status("processing", job[w].id))
    /\ pc' = [pc EXCEPT ![w] = "running"]
    /\ trun' = [trun EXCEPT ![w] = now]
    /\ ret' = NoRet
    /\ retried' = NoRetried
    /\ UNCHANGED <<jobs, kv, now, shutdown, tclaim, base, job, ncmd, claimed, retry_at>>

\* worker_loop: run_command returned code 0 at some time since the heartbeat;
\* finish_job_success read the clock twice after that, and its UPDATE is committed
WorkerFinishSuccess(w) ==
    /\ pc[w] = "running"
    /\ \E r \in Readings(trun[w], now) :
           jobs' = finish_job_success(jobs, job[w].id, "stdout", r[1], r[2])
    /\ ret' = NoRet
    /\ retried' = NoRetried
    /\ pc' = [pc EXCEPT ![w] = "top"]
    /\ job' = [job EXCEPT ![w] = NoRow]
    /\ trun' = [trun EXCEPT ![w] = 0]
    /\ UNCHANGED <<kv, wstatus, now, shutdown, tclaim, base, ncmd, claimed, retry_at>>

\* worker_loop: run_command returned a non-zero code or raised, and
\* finish_job_failure reads backoff_base (line 180).  When int() raises
\* ValueError, the call made in the try block (226) is followed by the call of the
\* except clause (229); out of the except clause the exception ends the process.
WorkerRunFails(w, o) ==
    /\ pc[w] = "running"
    /\ IF FailureRaises(kv)
       THEN /\ pc' = [pc EXCEPT ![w] = IF o = "nonzero" THEN "handler" ELSE "crashed"]
            /\ ret' = NoRet
            /\ retried' = NoRetried
            /\ trun' = [trun EXCEPT ![w] = 0]
            /\ base' = base
       ELSE /\ pc' = [pc EXCEPT ![w] = "failing"]
            /\ ret' = NoRet
            /\ retried' = NoRetried
            /\ trun' = [trun EXCEPT ![w] = now]
            /\ base' = [base EXCEPT ![w] = BackoffBase(kv)]
    /\ UNCHANGED <<jobs, kv, wstatus, now, shutdown, tclaim, job, ncmd, claimed, retry_at>>

\* worker_loop, the except clause: finish_job_failure is called again and reads
\* backoff_base again
WorkerHandler(w) ==
    /\ pc[w] = "handler"
    /\ IF FailureRaises(kv)
       THEN /\ pc' = [pc EXCEPT ![w] = "crashed"]
            /\ ret' = NoRet
            /\ retried' = NoRetried
            /\ UNCHANGED <<trun, base>>
       ELSE /\ pc' = [pc EXCEPT ![w] = "failing"]
            /\ ret' = NoRet
            /\ retried' = NoRetried
            /\ trun' = [trun EXCEPT ![w] = now]
            /\ base' = [base EXCEPT ![w] = BackoffBase(kv)]
    /\ UNCHANGED <<jobs, kv, wstatus, now, shutdown, tclaim, job, ncmd, claimed, retry_at>>

\* finish_job_failure, after the read of backoff_base: two clock readings, then
\* the UPDATE is committed
WorkerFinishFailure(w) ==
    /\ pc[w] = "failing"
    /\ \E r \in Readings(trun[w], now) :
         /\ jobs' = finish_job_failure(jobs, base[w], job[w], ErrorText("nonzero"), r[1], r[2])
         /\ retry_at' = IF job[w].attempts + 1 > job[w].max_retries
                        THEN retry_at
                        ELSE [retry_at EXCEPT ![job[w].id] =
                                r[1] + base[w] ^ (job[w].attempts + 1)]
    /\ claimed' = IF job[w].attempts + 1 > job[w].max_retries
                  THEN claimed ELSE claimed \ {job[w].id}
    /\ ret' = NoRet
    /\ retried' = NoRetried
    /\ pc' = [pc EXCEPT ![w] = "top"]
    /\ job' = [job EXCEPT ![w] = NoRow]
    /\ trun' = [trun EXCEPT ![w] = 0]
    /\ base' = [base EXCEPT ![w] = 0]
    /\ UNCHANGED <<kv, wstatus, now, shutdown, tclaim, ncmd>>

\* worker_loop: the test found the event set; record 'stopped' and return
WorkerStop(w) ==
    /\ pc[w] = "stopping"
    /\ wstatus' = IF wstatus[w] = NoStatus THEN wstatus
                  ELSE [wstatus EXCEPT ![w] = Status("stopped", NoJob)]
    /\ pc' = [pc EXCEPT ![w] = "exited"]
    /\ ret' = NoRet
    /\ retried' = NoRetried
    /\ UNCHANGED <<jobs, kv, now, shutdown, tclaim, trun, base, job, ncmd, claimed, retry_at>>

\* the positions of a worker process that is alive
LivePcs == {"top", "loop", "stopping", "beat", "claiming", "idle", "claimed",
            "running", "handler", "failing"}

\* the positions between a worker's claim of a job and the end of its finalize call
HoldingPcs == {"claimed", "running", "handler", "failing"}

\* SIGKILL, power loss: the worker process dies while it holds a job, after the
\* COMMIT of its claim and before that of its finalize UPDATE.  (A worker killed
\* while it holds no job changes no table: it is a worker that takes no further
\* step, which every behaviour of the system allows.)
WorkerKill(w) ==
    /\ pc[w] \in HoldingPcs
    /\ pc' = [pc EXCEPT ![w] = "killed"]
    /\ trun' = [trun EXCEPT ![w] = 0]
    /\ base' = [base EXCEPT ![w] = 0]
    /\ ret' = NoRet
    /\ retried' = NoRetried
    /\ UNCHANGED <<jobs, kv, wstatus, now, shutdown, tclaim, job, ncmd, claimed, retry_at>>

\* queuectl dlq retry <job_id>: the clock is read twice (arguments, line 322), the
\* UPDATE is committed when the write lock is had
DlqRetry(id) ==
    /\ ncmd < MaxCommands
    /\ ncmd' = ncmd + 1
    /\ \E r \in Readings(0, now) : jobs' = dlq_retry(jobs, id, r[1], r[2])
    /\ ret' = Ret("dlq_retry", id, TRUE)
    /\ retried' = IF id \in UsedIds(jobs) /\ jobs[id].state = "dead"
                  THEN [id |-> id, by |-> NoWorker] ELSE NoRetried
    /\ UNCHANGED <<kv, wstatus, now, shutdown, pc, tclaim, trun, base, job, claimed, retry_at>>

\* queuectl config set <key> <value>
ConfigSet(key, value) ==
    /\ ncmd < MaxCommands
    /\ ncmd' = ncmd + 1
    /\ kv' = set_config(kv, key, value)
    /\ ret' = NoRet
    /\ retried' = NoRetried
    /\ UNCHANGED <<jobs, wstatus, now, shutdown, pc, tclaim, trun, base, job, claimed, retry_at>>

\* SIGINT / SIGTERM: _signal_handler sets the event
Signal ==
    /\ ~shutdown
    /\ ncmd < MaxCommands
    /\ ncmd' = ncmd + 1
    /\ shutdown' = TRUE
    /\ ret' = NoRet
    /\ retried' = NoRetried
    /\ UNCHANGED <<jobs, kv, wstatus, now, pc, tclaim, trun, base, job, claimed, retry_at>>

\* one second passes
Tick ==
    /\ now < MaxTime
    /\ now' = now + 1
    /\ ret' = NoRet
    /\ retried' = NoRetried
    /\ UNCHANGED <<jobs, kv, wstatus, shutdown, pc, tclaim, trun, base, job, ncmd, claimed, retry_at>>

Next ==
    \/ \E s \in JobSpecs : Enqueue(s)
    \/ \E w \in WorkerIds : WorkerTest(w)
    \/ \E w \in WorkerIds : WorkerBegin(w)
    \/ \E w \in WorkerIds : WorkerReadClock(w)
    \/ \E w \in WorkerIds : WorkerClaim(w)
    \/ \E w \in WorkerIds : WorkerIdle(w)
    \/ \E w \in WorkerIds : WorkerHeartbeat(w)
    \/ \E w \in WorkerIds : WorkerFinishSuccess(w)
    \/ \E w \in WorkerIds, o \in Failures : WorkerRunFails(w, o)
    \/ \E w \in WorkerIds : WorkerHandler(w)
    \/ \E w \in WorkerIds : WorkerFinishFailure(w)
    \/ \E w \in WorkerIds : WorkerStop(w)
    \/ \E w \in WorkerIds : WorkerKill(w)
    \/ \E id \in JobIds : DlqRetry(id)
    \/ \E k \in ConfigKeys : \E v \in ConfigTextsOf(k) : ConfigSet(k, v)
    \/ Signal
    \/ Tick

Spec == Init /\ [][Next]_vars

\* the whole system, the job JSONs being those of BasicSpecs
NextBasic ==
    \/ \E s \in BasicSpecs : Enqueue(s)
    \/ \E w \in WorkerIds : WorkerTest(w)
    \/ \E w \in WorkerIds : WorkerBegin(w)
    \/ \E w \in WorkerIds : WorkerReadClock(w)
    \/ \E w \in WorkerIds : WorkerClaim(w)
    \/ \E w \in WorkerIds : WorkerIdle(w)
    \/ \E w \in WorkerIds : WorkerHeartbeat(w)
    \/ \E w \in WorkerIds : WorkerFinishSuccess(w)
    \/ \E w \in WorkerIds, o \in Failures : WorkerRunFails(w, o)
    \/ \E w \in WorkerIds : WorkerHandler(w)
    \/ \E w \in WorkerIds : WorkerFinishFailure(w)
    \/ \E w \in WorkerIds : WorkerStop(w)
    \/ \E w \in WorkerIds : WorkerKill(w)
    \/ \E id \in JobIds : DlqRetry(id)
    \/ \E k \in ConfigKeys : \E v \in ConfigTextsOf(k) : ConfigSet(k, v)
    \/ Signal
    \/ Tick

SpecBasic == Init /\ [][NextBasic]_vars

\* the operations on jobs other than dlq retry: enqueue of every job JSON, and
\* the worker loop with claim and the two finalizations, under changes of
\* backoff_base, the config key these operations read, and the passing of time.
\* (There is no shutdown, no kill and no change of poll_idle_secs: each leaves a
\* worker that takes no further step on jobs, which every behaviour here allows
\* at every step.  max_retries_default is read by no code.)
NextNoDlq ==
    \/ \E s \in JobSpecs : Enqueue(s)
    \/ \E w \in WorkerIds : WorkerTest(w)
    \/ \E w \in WorkerIds : WorkerBegin(w)
    \/ \E w \in WorkerIds : WorkerReadClock(w)
    \/ \E w \in WorkerIds : WorkerClaim(w)
    \/ \E w \in WorkerIds : WorkerIdle(w)
    \/ \E w \in WorkerIds : WorkerHeartbeat(w)
    \/ \E w \in WorkerIds : WorkerFinishSuccess(w)
    \/ \E w \in WorkerIds, o \in Failures : WorkerRunFails(w, o)
    \/ \E w \in WorkerIds : WorkerHandler(w)
    \/ \E w \in WorkerIds : WorkerFinishFailure(w)
    \/ \E v \in ConfigTextsOf("backoff_base") : ConfigSet("backoff_base", v)
    \/ Tick

SpecNoDlq == Init /\ [][NextNoDlq]_vars

\* the same under the shutdown signal, kills and changes of every config key:
\* the whole system but for the dlq retry command
NextNoDlqKill ==
    \/ NextNoDlq
    \/ \E k \in ConfigKeys : \E v \in ConfigTextsOf(k) : ConfigSet(k, v)
    \/ \E w \in WorkerIds : WorkerStop(w)
    \/ \E w \in WorkerIds : WorkerKill(w)
    \/ Signal

SpecNoDlqKill == Init /\ [][NextNoDlqKill]_vars

\* producers and the operator's config commands while no worker runs
NextEnqueue ==
    \/ \E s \in JobSpecs : Enqueue(s)
    \/ \E k \in ConfigKeys : \E v \in ConfigTextsOf(k) : ConfigSet(k, v)
    \/ Tick

SpecEnqueue == Init /\ [][NextEnqueue]_vars

\* the state after `queuectl config set backoff_base 1` on a new database
InitRetry ==
    /\ jobs = <<>>
    /\ kv = set_config(init_db, "backoff_base", "1")
    /\ wstatus = [w \in WorkerIds |-> NoStatus]
    /\ now = 0
    /\ shutdown = FALSE
    /\ pc = [w \in WorkerIds |-> "top"]
    /\ tclaim = [w \in WorkerIds |-> 0]
    /\ trun = [w \in WorkerIds |-> 0]
    /\ base = [w \in WorkerIds |-> 0]
    /\ job = [w \in WorkerIds |-> NoRow]
    /\ ret = NoRet
    /\ ncmd = 0
    /\ claimed = {}
    /\ retry_at = [j \in JobIds |-> 0]
    /\ retried = NoRetried

\* the system whose operator set backoff_base to 1 before the workers started, so
\* that a failed job is due again one second later: jobs are enqueued with a
\* command, workers run them, and the operator uses dlq retry.  backoff_base is
\* an integer throughout, so no finish_job_failure call raises and the except
\* clause is never entered after one (WorkerHandler has no part here)
NextRetry ==
    \/ \E mr \in {NoKey} \cup 0..MaxRetriesIn : Enqueue(PlainSpec(mr, NoKey))
    \/ \E w \in WorkerIds : WorkerTest(w)
    \/ \E w \in WorkerIds : WorkerBegin(w)
    \/ \E w \in WorkerIds : WorkerReadClock(w)
    \/ \E w \in WorkerIds : WorkerClaim(w)
    \/ \E w \in WorkerIds : WorkerIdle(w)
    \/ \E w \in WorkerIds : WorkerHeartbeat(w)
    \/ \E w \in WorkerIds : WorkerFinishSuccess(w)
    \/ \E w \in WorkerIds, o \in Failures : WorkerRunFails(w, o)
    \/ \E w \in WorkerIds : WorkerFinishFailure(w)
    \/ \E id \in JobIds : DlqRetry(id)
    \/ Tick

SpecRetry == InitRetry /\ [][NextRetry]_vars

\* the pending jobs that wait for their available_at at time t
Waiting(js, t) == {j \in DOMAIN js : js[j].state = "pending" /\ js[j].available_at > t}

\* time advances: the clock moves on to the instant at which the next waiting
\* job falls due
TickToDue ==
    /\ Waiting(jobs, now) # {}
    /\ now' = CHOOSE t \in {jobs[j].available_at : j \in Waiting(jobs, now)} :
                  \A j \in Waiting(jobs, now) : t <= jobs[j].available_at
    /\ ret' = NoRet
    /\ retried' = NoRetried
    /\ UNCHANGED <<jobs, kv, wstatus, shutdown, pc, tclaim, trun, base, job, ncmd, claimed, retry_at>>

\* the system left to run: jobs are enqueued with a command and a max_retries
\* of at most MaxRetriesProgress, there is no dlq retry, no shutdown signal and
\* no kill, every worker process that is alive keeps taking the steps of its
\* loop, every execution of a command ends and time advances
NextProgress ==
    \/ \E mr \in 0..MaxRetriesProgress : Enqueue(PlainSpec(mr, NoKey))
    \/ \E w \in WorkerIds : WorkerTest(w)
    \/ \E w \in WorkerIds : WorkerBegin(w)
    \/ \E w \in WorkerIds : WorkerReadClock(w)
    \/ \E w \in WorkerIds : WorkerClaim(w)
    \/ \E w \in WorkerIds : WorkerIdle(w)
    \/ \E w \in WorkerIds : WorkerHeartbeat(w)
    \/ \E w \in WorkerIds : WorkerFinishSuccess(w)
    \/ \E w \in WorkerIds, o \in Failures : WorkerRunFails(w, o)
    \/ \E w \in WorkerIds : WorkerHandler(w)
    \/ \E w \in WorkerIds : WorkerFinishFailure(w)
    \/ \E k \in ConfigKeys : \E v \in ConfigTextsOf(k) : ConfigSet(k, v)
    \/ TickToDue

SpecProgress ==
    /\ Init
    /\ [][NextProgress]_vars
    /\ \A w \in WorkerIds : WF_vars(WorkerTest(w))
    /\ \A w \in WorkerIds : WF_vars(WorkerBegin(w))
    /\ \A w \in WorkerIds : WF_vars(WorkerReadClock(w))
    /\ \A w \in WorkerIds : WF_vars(WorkerClaim(w))
    /\ \A w \in WorkerIds : WF_vars(WorkerIdle(w))
    /\ \A w \in WorkerIds : WF_vars(WorkerHeartbeat(w))
    /\ \A w \in WorkerIds :
           WF_vars(WorkerFinishSuccess(w) \/ \E o \in Failures : WorkerRunFails(w, o))
    /\ \A w \in WorkerIds : WF_vars(WorkerHandler(w))
    /\ \A w \in WorkerIds : WF_vars(WorkerFinishFailure(w))
    /\ WF_vars(TickToDue)

TypeOK == /\ now \in 0..MaxTime
          /\ DOMAIN jobs \subseteq JobIds

\* ---- vocabulary of the properties ----------------------------------------
\* the step just taken is an enqueue that was accepted: the jobs table changed and
\* it was no step of a worker and no dlq retry
EnqueueStep == jobs' # jobs /\ pc' = pc /\ ncmd' = ncmd

\* the worker whose claim the step just taken returned a job to; the job is job'[w]
ClaimedBy(w) == pc[w] = "claiming" /\ pc'[w] = "claimed"

\* the worker whose claim transaction the step just taken was; tclaim[w] is the
\* clock value that transaction used, and job'[w].id is what it returned (NoJob
\* for none)
ClaimCallOf(w) == pc[w] = "claiming" /\ pc'[w] \in {"idle", "claimed"}

\* the step just taken is the UPDATE of a finish_job_success call of worker w
SucceededBy(w) == pc[w] = "running" /\ pc'[w] = "top"

\* the step just taken is the UPDATE of a finish_job_failure call of worker w
FailedBy(w) == pc[w] = "failing" /\ pc'[w] = "top"

\* the step just taken is the UPDATE of a finalize call of worker w, for job[w]
FinalizedBy(w) == SucceededBy(w) \/ FailedBy(w)

\* the step just taken is a claim transaction or the UPDATE of a finalize call
EngineStep == \E w \in WorkerIds : ClaimCallOf(w) \/ FinalizedBy(w)

\* the step just taken is the read of backoff_base by a finish_job_failure call
\* of worker w
ReadsBase(w) == pc[w] \in {"running", "handler"} /\ pc'[w] \in {"failing", "handler", "crashed"}

\* the worker's process ended between its claim of a job and the end of the
\* finalize call for it: it was killed, or the finalize call raised
Died(w) == pc[w] \in {"killed", "crashed"} /\ job[w].id # NoJob

\* workers that are between their claim of job j and their finalize of it
Holders(j) == {w \in WorkerIds : pc[w] \in HoldingPcs /\ job[w].id = j}

\* job j is pending and due at time t, as the data model defines eligibility
IsDue(j, t) == jobs[j].state = "pending" /\ jobs[j].available_at <= t

\* job j comes strictly before job k in (priority, created_at) order
Ahead(j, k) == \/ jobs[j].priority < jobs[k].priority
               \/ jobs[j].priority = jobs[k].priority /\ jobs[j].created_at < jobs[k].created_at

\* job k was enqueued before job j: a new row takes the least unused id, so the
\* ids are in the order of the INSERTs
EnqueuedBefore(k, j) == k < j

\* ---- C1 --------------------------------------------------------------------
\* C1: with enqueue, claim, finalize_success and finalize_failure as the only
\* operations on jobs, every claim that returns a job returns one that was
\* pending, makes it processing, hands it to exactly one worker, and the job was
\* not returned by an earlier claim unless a finalize_failure put it back to
\* pending in between.
C1_AtomicSingleClaim ==
    [][\A w \in WorkerIds : ClaimedBy(w) =>
         /\ job'[w].id \notin claimed
         /\ jobs[job'[w].id].state = "pending"
         /\ jobs'[job'[w].id].state = "processing"
         /\ Cardinality({v \in WorkerIds : ClaimedBy(v) /\ job'[v].id = job'[w].id}) = 1
         /\ Holders(job'[w].id) = {}]_vars

\* a job is claimed again after a failure sent it back to pending, while the
\* other worker is running a job of its own
C1_Witness ==
    \E j \in DOMAIN jobs :
        /\ \E w \in WorkerIds : pc[w] = "claimed" /\ job[w].id = j
        /\ jobs[j].state = "processing"
        /\ jobs[j].attempts >= 1
        /\ jobs[j].last_error # NullText
        /\ Cardinality(Holders(j)) = 1
        /\ \E w \in WorkerIds : pc[w] = "running" /\ job[w].id # j

\* ---- C2 --------------------------------------------------------------------
\* C2: in every reachable state at most one worker is between its claim of a
\* given job and its finalize of that job.
C2_MutualExclusion == \A j \in DOMAIN jobs : Cardinality(Holders(j)) <= 1

\* ---- C3 --------------------------------------------------------------------
\* C3: in every reachable state a job has attempts = max_retries + 1 if and only
\* if its state is dead.
C3_DeadIffExhausted ==
    \A j \in DOMAIN jobs :
        (jobs[j].attempts = jobs[j].max_retries + 1) <=> (jobs[j].state = "dead")

\* ---- C4 --------------------------------------------------------------------
\* C4: a successful finalization of a job that had failed k times (k is the
\* attempts value the worker read at claim time) leaves the job completed with
\* attempts = k + 1.
C4_AttemptsCountSuccess ==
    [][\A w \in WorkerIds :
         SucceededBy(w) =>
             /\ jobs'[job[w].id].state = "completed"
             /\ jobs'[job[w].id].attempts = job[w].attempts + 1]_vars

\* ---- C5 --------------------------------------------------------------------
\* C5: a claim never returns a job before the backoff that its last failure
\* finalization started (backoff_base ^ attempts seconds from that finalization)
\* has passed.  Both ends are the calls' own readings of the clock: the one
\* finish_job_failure added the delay to, and the one the claim compares with.
C5_BackoffRespected ==
    [][\A w \in WorkerIds :
         ClaimedBy(w) => tclaim[w] >= retry_at[job'[w].id]]_vars

\* ---- C6 --------------------------------------------------------------------
\* C6: a claim returns none exactly when no job is pending with available_at <=
\* now, and then changes no job; otherwise it returns the due job that is least
\* in (priority, created_at) order, and turns that job, and no other, to
\* processing: no due job with a lower priority value is left behind, and among
\* the due jobs of its priority the returned one is the one enqueued first.
\* `now` is the claim's own reading of the clock (the variable now of
\* atomic_claim_next_job), applied to the table as the claim's transaction finds
\* it.
C6_ClaimSelection ==
    [][\A w \in WorkerIds : ClaimCallOf(w) =>
         IF job'[w].id = NoJob
         THEN /\ \A k \in DOMAIN jobs : ~IsDue(k, tclaim[w])
              /\ jobs' = jobs
         ELSE /\ job'[w].id \in DOMAIN jobs
              /\ IsDue(job'[w].id, tclaim[w])
              /\ \A k \in DOMAIN jobs : IsDue(k, tclaim[w]) => ~Ahead(k, job'[w].id)
              /\ \A k \in DOMAIN jobs :
                     (IsDue(k, tclaim[w]) /\ jobs[k].priority = jobs[job'[w].id].priority)
                         => ~EnqueuedBefore(k, job'[w].id)
              /\ jobs'[job'[w].id].state = "processing"
              /\ \A k \in DOMAIN jobs \ {job'[w].id} : jobs'[k] = jobs[k]]_vars

\* ---- C7 --------------------------------------------------------------------
\* C7: dlq_retry on a job that is not dead, or on an unknown id, fails and leaves
\* every job unchanged.
C7_DlqRetryOnlyFromDead ==
    [][(ret'.op = "dlq_retry"
        /\ (ret'.id \notin DOMAIN jobs \/ jobs[ret'.id].state # "dead")) =>
         /\ ~ret'.ok
         /\ jobs' = jobs]_vars

C9_AttemptsMonotone ==
    /\ [](\A j \in DOMAIN jobs : jobs[j].attempts <= jobs[j].max_retries + 1)
    /\ [][EngineStep =>
            \A j \in DOMAIN jobs : jobs'[j].attempts >= jobs[j].attempts]_vars

\* ---- C10 -------------------------------------------------------------------
\* C10: in every reachable state a job that is pending, completed or dead has a
\* null worker_id.
C10_WorkerIdCleared ==
    \A j \in DOMAIN jobs :
        jobs[j].state \in {"pending", "completed", "dead"} => jobs[j].worker_id = NoWorker

\* ---- C11 -------------------------------------------------------------------
\* C11: in every reachable state every job's state is one of pending, processing,
\* completed, dead; a processing job has non-null worker_id and started_at; a
\* completed job has non-null output; a dead job has non-null last_error.
C11_FieldNullity ==
    \A j \in DOMAIN jobs :
        /\ jobs[j].state \in JobStates
        /\ jobs[j].state = "processing" =>
               jobs[j].worker_id # NoWorker /\ jobs[j].started_at # NullTime
        /\ jobs[j].state = "completed" => jobs[j].output # NullText
        /\ jobs[j].state = "dead" => jobs[j].last_error # NullText

\* ---- C12 -------------------------------------------------------------------
\* C12: an enqueue that is accepted, whatever keys its specification carries,
\* adds exactly one job, which is pending with attempts = 0 and created_at =
\* updated_at = now (the command's one reading of the clock, which is not ahead
\* of the clock), and leaves every existing job as it was.
C12_EnqueueEffect ==
    [][EnqueueStep =>
         \E i \in JobIds \ DOMAIN jobs :
             /\ DOMAIN jobs' = DOMAIN jobs \cup {i}
             /\ jobs'[i].state = "pending"
             /\ jobs'[i].attempts = 0
             /\ jobs'[i].created_at <= now
             /\ jobs'[i].updated_at = jobs'[i].created_at
             /\ \A k \in DOMAIN jobs : jobs'[k] = jobs[k]]_vars

\* ---- C13 -------------------------------------------------------------------
\* C13: an accepted enqueue of a specification without max_retries gives the new
\* job the current integer value of the config key max_retries_default.
C13_DefaultRetriesFromConfig ==
    [][\A s \in JobSpecs \cup {DefaultSpec} :
         (/\ EnqueueStep
          /\ s.max_retries = NoKey
          /\ ~EnqueueRaises(jobs, s)
          /\ \E t \in 0..now : jobs' = enqueue_job(jobs, s, t)
          /\ IsIntText(get_config(kv, "max_retries_default", NullText))) =>
             jobs'[EnqueueId(jobs, s)].max_retries =
                 IntOfText(get_config(kv, "max_retries_default", NullText))]_vars

\* ---- C14 -------------------------------------------------------------------
\* C14: in every reachable state every job has available_at >= created_at.
C14_AvailableNotBeforeCreated ==
    \A j \in DOMAIN jobs : jobs[j].available_at >= jobs[j].created_at

\* ---- C15 -------------------------------------------------------------------
\* C15: the job of a worker that died between claiming it and finalizing it is in
\* processing in every state from then on, and no claim or finalize step of any
\* worker changes that job.
C15_LostJobStaysProcessing ==
    /\ [](\A w \in WorkerIds : Died(w) => jobs[job[w].id].state = "processing")
    /\ [][\A w \in WorkerIds :
            (Died(w) /\ EngineStep) =>
                jobs'[job[w].id] = jobs[job[w].id]]_vars

\* ---- C16 -------------------------------------------------------------------
\* C16: a worker leaves its loop only from the top of an iteration, its test
\* having found the shutdown flag set, and whenever a worker process has ended of its own accord
\* (it was not killed) its status is 'stopped' and no job is in processing with
\* its worker id: every job it claimed was finalized first.
C16_GracefulShutdown ==
    /\ [][\A w \in WorkerIds :
            (pc[w] \in LivePcs /\ pc'[w] \in {"exited", "crashed"}) =>
                pc[w] = "stopping" /\ shutdown]_vars
    /\ [](\A w \in WorkerIds :
            pc[w] \in {"exited", "crashed"} =>
                /\ wstatus[w].s = "stopped"
                /\ \A j \in DOMAIN jobs :
                       ~(jobs[j].state = "processing" /\ jobs[j].worker_id = w))

\* ---- C17 -------------------------------------------------------------------
\* C17: a finalize_failure call that finds a config value of backoff_base that
\* is not an integer goes on with base 2 (so that it leaves the failed job
\* pending with available_at = now + 2 ^ attempts, or dead, and the worker goes
\* on to its next iteration).
C17_MalformedBackoffTolerated ==
    [][\A w \in WorkerIds :
         (ReadsBase(w) /\ FailureRaises(kv)) =>
             /\ pc'[w] = "failing"
             /\ base'[w] = DEFAULT_BACKOFF_BASE]_vars

\* ---- C18 -------------------------------------------------------------------
\* C18: with no dlq retry, every command execution ending and time advancing, in
\* a behaviour in which some worker keeps running (it is at the top of its loop
\* again and again) every enqueued job eventually is completed or dead; and a
\* job that completed without ever failing has attempts <= 1.
C18_Progress ==
    /\ ([]<>(\E w \in WorkerIds : pc[w] = "top")) =>
           \A j \in JobIds :
               [](j \in DOMAIN jobs =>
                      <>(j \in DOMAIN jobs /\ jobs[j].state \in {"completed", "dead"}))
    /\ [](\A j \in DOMAIN jobs :
            (jobs[j].state = "completed" /\ jobs[j].last_error = NullText) =>
                jobs[j].attempts <= 1)

\* ---- C19 -------------------------------------------------------------------
\* C19: a finalize_success or finalize_failure call changes its job only when
\* the job is in processing and held by the calling worker (worker_id is the
\* caller), and a completed job never leaves completed.
C19_FinalizeOnlyHeldJob ==
    /\ [][\A w \in WorkerIds :
            (FinalizedBy(w) /\ jobs'[job[w].id] # jobs[job[w].id]) =>
                /\ jobs[job[w].id].state = "processing"
                /\ jobs[job[w].id].worker_id = w]_vars
    /\ [][\A j \in DOMAIN jobs :
            jobs[j].state = "completed" => jobs'[j].state = "completed"]_vars

====
